---- MODULE Spec2Model ----
(***************************************************************************)
(* Model of streamlit_app.py: the session lifecycle (Start / End) and the  *)
(* conversational turn (Send & Speak) of the Interactive Avatar page.      *)
(*                                                                         *)
(* One action is one run of the script, triggered by one button press (or  *)
(* by a rerun with no button pressed).  The remote services (OpenAI,       *)
(* Tavus) are the environment: each call's response is drawn from the set  *)
(* of responses the service can give.  The transcript file written by      *)
(* _append is not modelled; only the control flow of process_input and     *)
(* process_output (strip, and the failure on a missing reply) is.          *)
(***************************************************************************)
EXTENDS Integers, Sequences, FiniteSets, TLC

\* ------------------------------------------------------------ bounds
MaxLen == 1      \* longest text typed, transcribed or replied
MaxChat == 4     \* a turn is taken only while its two entries fit in this many
MaxIds == 2      \* conversation ids the remote service hands out

\* ------------------------------------------------------------ values
SP == " "
Chars == {SP, "a"}
Texts == UNION {[1..n -> Chars] : n \in 0..MaxLen}

NoId == 0                 \* conv_id = None
NoUrl == <<>>             \* conv_url = None
UrlOf(id) == <<"room", id>> \* the conversation_url the service returns with id

NoAudio == "None"         \* mic_blob is None
Wav == "wav"              \* mic_blob holds a recorded clip
MicInputs == {NoAudio, Wav}

NoResp == [kind |-> "none", text |-> <<>>]
\* A failed request: the adapters turn an authentication error, a rate limit
\* and any other exception into RuntimeErrors that differ in their message
\* only, so one failure response stands for the three.
Failures == {"error"}
FailResp == [kind : Failures, text : {<<>>}]
\* client.audio.transcriptions.create: a text, or an exception
TranscribeResponses == [kind : {"ok"}, text : Texts] \cup FailResp
\* client.chat.completions.create: a content, a null content, or an exception
ChatResponses == [kind : {"ok"}, text : Texts] \cup [kind : {"null"}, text : {<<>>}] \cup FailResp
\* POST /v2/conversations: 200 with both fields, or 429, 401/403, another error
CreateResponses == {"ok"} \cup Failures
\* POST /v2/conversations/{id}/end: any status, or a transport exception
EndResponses == {"ok", "http_error", "transport"}
\* POST interactions url: a status < 400, or a status >= 400 / transport exception
SpeakResponses == {"ok"} \cup Failures
\* client.models.list: a listing, or an exception
ValidateResponses == {"ok"} \cup Failures

\* ------------------------------------------------------------ state
VARIABLES
    conv_id,     \* ss["conv_id"]
    conv_url,    \* ss["conv_url"]
    chat,        \* ss["chat"]: sequence of <<role, content>>
    boot_nonce,  \* ss["boot_nonce"]
    nextId,      \* remote service: next conversation id it will hand out
    ended,       \* remote service: ids for which an end call was received
    shown,       \* buttons rendered by the last run of the script
    room,        \* url of the iframe the last run rendered (NoUrl: none)
    calls,       \* adapter calls made by the last run, in order
    notices,     \* st.error / st.warning / st.toast shown by the last run
    last         \* the event that triggered the last run, with the widget values it read

vars == <<conv_id, conv_url, chat, boot_nonce, nextId, ended, shown, room, calls, notices, last>>

\* ------------------------------------------------------------ python values
\* str.strip() on a text
RECURSIVE lstrip(_)
lstrip(s) == IF s = <<>> THEN s ELSE IF Head(s) = SP THEN lstrip(Tail(s)) ELSE s

RECURSIVE rstrip(_)
rstrip(s) == IF s = <<>> THEN s ELSE IF s[Len(s)] = SP THEN rstrip(SubSeq(s, 1, Len(s) - 1)) ELSE s

strip(s) == rstrip(lstrip(s))

\* the local `text` of the Send handler: None or a str
NoneText == [none |-> TRUE, s |-> <<>>]
Str(s) == [none |-> FALSE, s |-> s]
\* `not text`: None and "" are falsy, every other str (also " ") is truthy
not_text(t) == t.none \/ t.s = <<>>

\* one adapter call as the remote side sees it
\* and as it ends in the client: resp is the response, out is "raised" when
\* an exception leaves the adapter
Call(op, id, text, messages, resp, out) ==
    [op |-> op, id |-> id, text |-> text, messages |-> messages, resp |-> resp, out |-> out]

\* what a run shows with st.error, st.warning and st.toast; an uncaught
\* exception is shown by the framework
Error == <<"error">>
Exception == <<"exception">>
Started == <<"toast: Session started.">>
Ended == <<"toast: Session ended.">>
NoInput == <<"warning: Please record audio or type a message.">>
NoSession == <<"warning: No active Tavus conversation.">>

\* ------------------------------------------------------------ adapters
\* Each adapter is given the response the remote service makes to its one
\* request, and yields what the Python function does with it: raised is
\* whether an exception leaves the function.
System == [role |-> "system", content |-> <<"You are a concise, friendly assistant.">>]

validate_openai(resp) == [raised |-> resp # "ok"]

openai_transcribe_wav(resp) ==
    [raised |-> resp.kind # "ok", value |-> resp.text]

\* openai_chat_reply that swallows a failed request and returns ""
openai_chat_reply_swallow(prompt, history, resp) ==
    [messages |-> <<System>> \o history \o <<[role |-> "user", content |-> prompt]>>,
     raised |-> FALSE,
     value |-> IF resp.kind = "ok" THEN Str(resp.text)
               ELSE IF resp.kind = "null" THEN NoneText ELSE Str(<<>>)]

openai_chat_reply(prompt, history, resp) ==
    [messages |-> <<System>> \o history \o <<[role |-> "user", content |-> prompt]>>,
     raised |-> resp.kind \notin {"ok", "null"},
     value |-> IF resp.kind = "ok" THEN Str(resp.text) ELSE NoneText]

create_conversation(resp, id) ==
    IF resp = "ok"
    THEN [raised |-> FALSE, conv_id |-> id, conv_url |-> UrlOf(id)]
    ELSE [raised |-> TRUE, conv_id |-> NoId, conv_url |-> NoUrl]

\* end_conversation without its try/except: a transport failure leaves it
end_conversation_unguarded(conversation_id, resp) == [raised |-> resp = "transport"]

\* try: requests.post(...) except Exception: pass -- the status is never read
end_conversation(conversation_id, resp) == [raised |-> FALSE]

broadcast_echo(conversation_id, text, resp) == [raised |-> resp # "ok"]

process_input(s) == strip(s)

\* _append calls text.strip(): a missing reply raises AttributeError
process_output(r) == [raised |-> r.none, value |-> strip(r.s)]

Outcome(r) == IF r.raised THEN "raised" ELSE "ok"

\* ------------------------------------------------------------ page
\* the buttons a run renders when it reaches the end of the script
Buttons(id) == {"Start", "Send"} \cup (IF id # NoId THEN {"End"} ELSE {})

\* time.time() at a successful start: the starts are numbered
Clock == nextId

\* ------------------------------------------------------------ Start
\* a Start handler that forgets the previous session
end_previous_skipped(resp) == [calls |-> <<>>, raised |-> FALSE]

\* lines 213-214: end any previous session
end_previous(resp) ==
    IF conv_id # NoId
    THEN [calls |-> <<Call("end", conv_id, <<>>, <<>>, resp, Outcome(end_conversation(conv_id, resp)))>>,
          raised |-> end_conversation(conv_id, resp).raised]
    ELSE [calls |-> <<>>, raised |-> FALSE]

\* the session state, calls and notices of a run in which Start was clicked;
\* stopped: st.stop() (or an uncaught exception) ended the run in the handler
StartHandler(vr, er, cr) ==
    LET v == validate_openai(vr)
        vcall == Call("validate", NoId, <<>>, <<>>, vr, Outcome(v))
        keep == [conv_id |-> conv_id, conv_url |-> conv_url, boot_nonce |-> boot_nonce,
                 created |-> FALSE]
    IN  IF v.raised
        THEN keep @@ [calls |-> <<vcall>>, notices |-> Error, stopped |-> TRUE]
        ELSE LET prev == end_previous(er)
             IN  IF prev.raised
                 THEN keep @@ [calls |-> <<vcall>> \o prev.calls, notices |-> Exception,
                               stopped |-> TRUE]
                 ELSE LET c == create_conversation(cr, nextId)
                          ccall == Call("create", c.conv_id, <<>>, <<>>, cr, Outcome(c))
                      IN  IF c.raised
                          THEN keep @@ [calls |-> <<vcall>> \o prev.calls \o <<ccall>>,
                                        notices |-> Error, stopped |-> TRUE]
                          ELSE [conv_id |-> c.conv_id, conv_url |-> c.conv_url,
                                boot_nonce |-> Clock, created |-> TRUE,
                                calls |-> <<vcall>> \o prev.calls \o <<ccall>>,
                                notices |-> Started, stopped |-> FALSE]

EndedBy(cs) == {cs[i].id : i \in {j \in DOMAIN cs : cs[j].op = "end"}}

PressStart ==
    /\ "Start" \in shown
    /\ \E vr \in ValidateResponses :
       \E er \in (IF vr = "ok" /\ conv_id # NoId THEN EndResponses ELSE {"none"}) :
       \E cr \in (IF vr # "ok" THEN {"none"}
                  ELSE IF nextId <= MaxIds THEN CreateResponses ELSE Failures) :
          LET r == StartHandler(vr, er, cr)
          IN  /\ conv_id' = r.conv_id
              /\ conv_url' = r.conv_url
              /\ boot_nonce' = r.boot_nonce
              /\ nextId' = IF r.created THEN nextId + 1 ELSE nextId
              /\ ended' = ended \cup EndedBy(r.calls)
              /\ calls' = r.calls
              /\ notices' = r.notices
              /\ shown' = IF r.stopped THEN {"Start"} ELSE Buttons(r.conv_id)
              /\ room' = IF r.stopped THEN NoUrl ELSE r.conv_url
              /\ last' = [op |-> "Start", mic |-> NoAudio, typed |-> <<>>]
              /\ UNCHANGED chat

\* ------------------------------------------------------------ End
\* an End handler that clears the id and leaves the url
EndButton_keeps_url(resp) ==
    [conv_id |-> NoId, conv_url |-> conv_url,
     calls |-> <<Call("end", conv_id, <<>>, <<>>, resp, "ok")>>, notices |-> Ended]

\* lines 248-251, reached when the End button is rendered and was clicked
EndButton(resp) ==
    LET e == end_conversation(conv_id, resp)
        ecall == Call("end", conv_id, <<>>, <<>>, resp, Outcome(e))
    IN  IF e.raised
        THEN [conv_id |-> conv_id, conv_url |-> conv_url, calls |-> <<ecall>>,
              notices |-> Exception]
        ELSE [conv_id |-> NoId, conv_url |-> NoUrl, calls |-> <<ecall>>,
              notices |-> Ended]

\* line 246: the button exists in this run only if a session is held
EndHandler(resp) ==
    IF conv_id # NoId
    THEN EndButton(resp)
    ELSE [conv_id |-> conv_id, conv_url |-> conv_url, calls |-> <<>>, notices |-> <<>>]

PressEnd ==
    /\ "End" \in shown
    /\ \E er \in (IF conv_id # NoId THEN EndResponses ELSE {"none"}) :
          LET r == EndHandler(er)
          IN  /\ conv_id' = r.conv_id
              /\ conv_url' = r.conv_url
              /\ ended' = ended \cup EndedBy(r.calls)
              /\ calls' = r.calls
              /\ notices' = r.notices
              /\ shown' = Buttons(conv_id)
              /\ room' = conv_url
              /\ last' = [op |-> "End", mic |-> NoAudio, typed |-> <<>>]
              /\ UNCHANGED <<chat, boot_nonce, nextId>>

\* ------------------------------------------------------------ Send
\* line 279: ss["chat"] as the list of dicts given to the Dialogue call
HistoryOf(c) == [i \in 1..Len(c) |-> [role |-> c[i][1], content |-> c[i][2]]]

\* a history update that keeps the new turn only
update_ui_history_reset(c, inp, out) == <<<<"user", inp>>, <<"assistant", out>>>>

\* lines 284-287: update UI history
update_ui_history(c, inp, out) == Append(Append(c, <<"user", inp>>), <<"assistant", out>>)

\* a speak step without the check of line 290
speak_unguarded(out, sr) ==
    [calls |-> <<Call("speak", conv_id, out, <<>>, sr, Outcome(broadcast_echo(conv_id, out, sr)))>>,
     notices |-> IF broadcast_echo(conv_id, out, sr).raised THEN Error ELSE <<>>]

\* lines 290-296: make the avatar speak, or warn
speak(out, sr) ==
    IF conv_id # NoId
    THEN LET b == broadcast_echo(conv_id, out, sr)
         IN  [calls |-> <<Call("speak", conv_id, out, <<>>, sr, Outcome(b))>>,
              notices |-> IF b.raised THEN Error ELSE <<>>]
    ELSE [calls |-> <<>>, notices |-> NoSession]

\* a pipeline that appends the user turn before it asks for the reply
run_pipeline_user_first(user_text, cr, sr) ==
    LET inp == process_input(user_text)
        r == openai_chat_reply(inp, HistoryOf(chat), cr)
        qcall == Call("chat", NoId, inp, r.messages, cr.kind, Outcome(r))
        c1 == Append(chat, <<"user", inp>>)
    IN  IF r.raised
        THEN [chat |-> c1, calls |-> <<qcall>>, notices |-> <<>>, raised |-> TRUE]
        ELSE LET o == process_output(r.value)
             IN  IF o.raised
                 THEN [chat |-> c1, calls |-> <<qcall>>, notices |-> <<>>, raised |-> TRUE]
                 ELSE LET sp == speak(o.value, sr)
                      IN  [chat |-> Append(c1, <<"assistant", o.value>>),
                           calls |-> <<qcall>> \o sp.calls,
                           notices |-> sp.notices, raised |-> FALSE]

\* raised: an exception leaves run_pipeline (the Send handler catches it)
run_pipeline(user_text, cr, sr) ==
    LET inp == process_input(user_text)
        r == openai_chat_reply(inp, HistoryOf(chat), cr)
        qcall == Call("chat", NoId, inp, r.messages, cr.kind, Outcome(r))
    IN  IF r.raised
        THEN [chat |-> chat, calls |-> <<qcall>>, notices |-> <<>>, raised |-> TRUE]
        ELSE LET o == process_output(r.value)
             IN  IF o.raised
                 THEN [chat |-> chat, calls |-> <<qcall>>, notices |-> <<>>, raised |-> TRUE]
                 ELSE LET sp == speak(o.value, sr)
                      IN  [chat |-> update_ui_history(chat, inp, o.value),
                           calls |-> <<qcall>> \o sp.calls,
                           notices |-> sp.notices, raised |-> FALSE]

\* lines 300-305: audio, when recorded, goes to Whisper
transcribe(mic_blob, tr) ==
    IF mic_blob # NoAudio
    THEN LET t == openai_transcribe_wav(tr)
         IN  [text |-> IF t.raised THEN NoneText ELSE Str(t.value),
              calls |-> <<Call("transcribe", NoId, t.value, <<>>, tr.kind, Outcome(t))>>,
              notices |-> IF t.raised THEN Error ELSE <<>>]
    ELSE [text |-> NoneText, calls |-> <<>>, notices |-> <<>>]

\* a fallback that takes the typed text without stripping it
resolve_text_unstripped(text, text_fallback) ==
    IF not_text(text) THEN Str(text_fallback) ELSE text

\* lines 306-307: otherwise use typed text
resolve_text(text, text_fallback) ==
    IF not_text(text) /\ strip(text_fallback) # <<>> THEN Str(strip(text_fallback)) ELSE text

SendHandler(mic_blob, text_fallback, tr, cr, sr) ==
    LET t == transcribe(mic_blob, tr)
        text == resolve_text(t.text, text_fallback)
    IN  IF not_text(text)
        THEN [chat |-> chat, calls |-> t.calls, notices |-> t.notices \o NoInput]
        ELSE LET p == run_pipeline(text.s, cr, sr)
             IN  [chat |-> p.chat, calls |-> t.calls \o p.calls,
                  notices |-> t.notices \o p.notices
                              \o (IF p.raised THEN Error ELSE <<>>)]

PressSend ==
    /\ "Send" \in shown
    /\ Len(chat) + 2 <= MaxChat
    /\ \E mic_blob \in MicInputs :
       \E tr \in (IF mic_blob = NoAudio THEN {NoResp} ELSE TranscribeResponses) :
       \* line 306 reads the text field only when `not text` (short-circuit and)
       \E text_fallback \in (IF not_text(transcribe(mic_blob, tr).text) THEN Texts ELSE {<<>>}) :
       \E cr \in (IF not_text(resolve_text(transcribe(mic_blob, tr).text, text_fallback))
                  THEN {NoResp} ELSE ChatResponses) :
       \E sr \in (IF cr.kind = "ok" /\ conv_id # NoId THEN SpeakResponses ELSE {"none"}) :
          LET r == SendHandler(mic_blob, text_fallback, tr, cr, sr)
          IN  /\ chat' = r.chat
              /\ calls' = r.calls
              /\ notices' = r.notices
              /\ shown' = Buttons(conv_id)
              /\ room' = conv_url
              /\ last' = [op |-> "Send", mic |-> mic_blob, typed |-> text_fallback]
              /\ UNCHANGED <<conv_id, conv_url, boot_nonce, nextId, ended>>

\* ------------------------------------------------------------ rerun
\* a run with no button clicked: a widget edited, a log button, the app menu
Rerun ==
    /\ calls' = <<>>
    /\ notices' = <<>>
    /\ shown' = Buttons(conv_id)
    /\ room' = conv_url
    /\ last' = [op |-> "Rerun", mic |-> NoAudio, typed |-> <<>>]
    /\ UNCHANGED <<conv_id, conv_url, chat, boot_nonce, nextId, ended>>

\* ------------------------------------------------------------ specification
\* the first run of the script in a new browser session: nothing clicked
Init ==
    /\ conv_id = NoId
    /\ conv_url = NoUrl
    /\ chat = <<>>
    /\ boot_nonce = 0
    /\ nextId = 1
    /\ ended = {}
    /\ shown = Buttons(NoId)
    /\ room = NoUrl
    /\ calls = <<>>
    /\ notices = <<>>
    /\ last = [op |-> "Load", mic |-> NoAudio, typed |-> <<>>]

Next == PressStart \/ PressEnd \/ PressSend \/ Rerun

Spec == Init /\ [][Next]_vars

\* ------------------------------------------------------------ properties
CallsOf(cs, op) == {i \in DOMAIN cs : cs[i].op = op}
Shows(ns, n) == \E i \in DOMAIN ns : ns[i] = n[1]
IsPrefix(a, b) == Len(a) <= Len(b) /\ SubSeq(b, 1, Len(a)) = a

\* the sessions the service created for which the client made no end call
Live == {id \in 1..(nextId - 1) : id \notin ended}

\* C1: every session created and not yet ended by the client is the one the
\* client holds (so there is at most one); and when Start is pressed while a
\* session is held and a create call is made, an end call for the held id
\* comes before the create call.
C1_EndBeforeCreate ==
    /\ [](Live \subseteq {conv_id} /\ Cardinality(Live) <= 1)
    /\ [][(last'.op = "Start" /\ conv_id # NoId)
            => \A i \in CallsOf(calls', "create") :
                  \E j \in 1..(i - 1) : calls'[j].op = "end" /\ calls'[j].id = conv_id]_vars

C1_Witness ==
    /\ last.op = "Start"
    /\ \E i \in CallsOf(calls, "create") :
          /\ i > 1
          /\ calls[i - 1].op = "end"
          /\ calls[i].out = "ok"
          /\ conv_id = calls[i].id
          /\ conv_id # calls[i - 1].id

\* C2: pressing End while a session is held leaves conv_id and conv_url
\* absent, whatever the end call's response was, and shows no error.
C2_EndClears ==
    [][(last'.op = "End" /\ conv_id # NoId)
        => /\ conv_id' = NoId
           /\ conv_url' = NoUrl
           /\ CallsOf(calls', "end") # {}
           /\ ~Shows(notices', Error)
           /\ ~Shows(notices', Exception)]_vars

C2_Witness ==
    /\ last.op = "End"
    /\ conv_id = NoId
    /\ conv_url = NoUrl
    /\ \E i \in CallsOf(calls, "end") : calls[i].resp = "transport"

\* C3: a speak call is made only with the id of the session held; a turn that
\* reaches the speak step with no session held warns and makes no speak call.
C3_SpeakOnlyActive ==
    /\ \A i \in CallsOf(calls, "speak") : conv_id # NoId /\ calls[i].id = conv_id
    /\ (last.op = "Send" /\ conv_id = NoId /\ \E i \in CallsOf(calls, "chat") : calls[i].resp = "ok")
         => (Shows(notices, NoSession) /\ CallsOf(calls, "speak") = {})

C3_Witness ==
    /\ last.op = "Send"
    /\ conv_id = NoId
    /\ \E i \in CallsOf(calls, "chat") : calls[i].resp = "ok"
    /\ Shows(notices, NoSession)
    /\ Len(chat) >= 2

\* C4: a Send press with no audio and a blank text field leaves History
\* unchanged, makes no adapter call and shows the no-input notice only.
C4_NoInputNoEffect ==
    [][(last'.op = "Send" /\ last'.mic = NoAudio /\ strip(last'.typed) = <<>>)
        => /\ chat' = chat
           /\ calls' = <<>>
           /\ notices' = NoInput
           /\ conv_id' = conv_id
           /\ conv_url' = conv_url]_vars

C4_Witness ==
    /\ last.op = "Send"
    /\ last.mic = NoAudio
    /\ last.typed = <<SP>>
    /\ calls = <<>>
    /\ notices = NoInput

\* C5: History is append-only and alternates user, assistant: every step
\* keeps the previous History as a prefix, the Dialogue call is given the
\* previous History in order followed by the prompt, and a reply is appended
\* right after the user turn that holds that prompt.
C5_HistoryAppendOnly ==
    /\ [](\A i \in DOMAIN chat : chat[i][1] = (IF i % 2 = 1 THEN "user" ELSE "assistant"))
    /\ [](Len(chat) % 2 = 0)
    /\ [][/\ IsPrefix(chat, chat')
           /\ (\A i \in CallsOf(calls', "chat") :
                 calls'[i].messages
                   = <<System>> \o HistoryOf(chat) \o <<[role |-> "user", content |-> calls'[i].text]>>)
           /\ (chat' # chat
                => \E k \in CallsOf(calls', "chat") :
                      /\ Len(chat') = Len(chat) + 2
                      /\ chat'[Len(chat) + 1] = <<"user", calls'[k].text>>
                      /\ chat'[Len(chat) + 2][1] = "assistant")]_vars

C5_Witness ==
    /\ last.op = "Send"
    /\ Len(chat) = 4
    /\ \E i \in CallsOf(calls, "chat") : calls[i].resp = "ok" /\ Len(calls[i].messages) = 4

\* C6 as stated: when the Dialogue call of a turn fails, History is the
\* previous History plus the user turn of that turn.
C6_UserTurnKept ==
    [][\A i \in CallsOf(calls', "chat") :
          calls'[i].resp = "error" => chat' = Append(chat, <<"user", calls'[i].text>>)]_vars

\* C6 amended: when the Dialogue call of a turn fails, the turn appends
\* nothing: History is the previous History, with no user turn for the
\* failed turn and no assistant reply.
C6_FailedTurnAppendsNothing ==
    [][\A i \in CallsOf(calls', "chat") : calls'[i].resp = "error" => chat' = chat]_vars

C6_Witness ==
    /\ last.op = "Send"
    /\ \E i \in CallsOf(calls, "chat") :
          calls[i].resp = "error" /\ calls[i].out = "raised" /\ calls[i].text # <<>>
    /\ Shows(notices, Error)
    /\ Len(chat) = 2

\* C7 as stated: a failed adapter call ends the turn: after a failed
\* transcription no Dialogue call and no speak call is made, and after a
\* failed Dialogue call no speak call is made.
C7_FailureAbortsTurn ==
    /\ \A i \in CallsOf(calls, "transcribe") :
          calls[i].resp = "error"
            => CallsOf(calls, "chat") = {} /\ CallsOf(calls, "speak") = {}
    /\ \A i \in CallsOf(calls, "chat") :
          calls[i].resp = "error" => CallsOf(calls, "speak") = {}

\* C7 amended: a failed Dialogue call is the last call of its turn and its
\* error is shown; a failed transcription is shown and ends the turn only
\* when the text field is blank, otherwise the turn goes on with the
\* stripped typed text as the prompt.
C7_FailureAbortsOrFallsBack ==
    /\ \A i \in CallsOf(calls, "chat") :
          calls[i].resp = "error" => i = Len(calls) /\ Shows(notices, Error)
    /\ \A i \in CallsOf(calls, "transcribe") :
          calls[i].resp = "error"
            => /\ Shows(notices, Error)
               /\ IF strip(last.typed) = <<>>
                  THEN Len(calls) = 1 /\ Shows(notices, NoInput)
                  ELSE /\ Len(calls) >= 2
                       /\ calls[2].op = "chat"
                       /\ calls[2].text = strip(last.typed)

C7_Witness ==
    /\ last.op = "Send"
    /\ last.mic = Wav
    /\ \E i \in CallsOf(calls, "transcribe") : calls[i].resp = "error"
    /\ \E i \in CallsOf(calls, "chat") : calls[i].resp = "ok"
    /\ CallsOf(calls, "speak") # {}

\* C8 as stated: after a transcription that is empty or whitespace only, the
\* turn has no input from the audio: a Dialogue call of that turn, if any,
\* has the non-blank typed text as its prompt, and that is the user turn
\* appended.
C8_BlankTranscriptIsNoInput ==
    \A i \in CallsOf(calls, "transcribe") :
       (calls[i].resp = "ok" /\ strip(calls[i].text) = <<>>)
         => \A k \in CallsOf(calls, "chat") :
               /\ calls[k].text # <<>>
               /\ calls[k].text = strip(last.typed)
               /\ (k < Len(calls) \/ Shows(notices, NoSession))
                    => chat[Len(chat) - 1] = <<"user", strip(last.typed)>>

\* C9: the embed url is present exactly when the session id is.
C9_UrlIffId == (conv_url # NoUrl) <=> (conv_id # NoId)

C9_Witness ==
    /\ last.op = "End"
    /\ CallsOf(calls, "end") # {}
    /\ conv_id = NoId
    /\ conv_url = NoUrl
    /\ room # NoUrl

\* C10 as stated: an id for which the client made an end call is not the
\* session the client holds, and no speak call carries such an id.
C10_EndedNeverCurrent ==
    /\ conv_id \notin ended
    /\ \A i \in CallsOf(calls, "speak") : calls[i].id \notin ended

====
